---- MODULE Spec2Model ----
(***************************************************************************)
(* Trivia API (starter/backend/flaskr/__init__.py): the Question table,    *)
(* the Category table and the request handlers of the Flask application.   *)
(* Every handler is an operator from the store and the request to the      *)
(* response (and the new store); the actions apply the handlers.           *)
(***************************************************************************)
EXTENDS Integers, Sequences, FiniteSets, TLC

VARIABLES
  questions,   \* the questions table: a set of rows
  categories,  \* the categories table: id -> type
  nextId,      \* the next value of the questions.id sequence
  request,     \* the request being served (op = "none": the server is idle)
  response,    \* the response to it (status 0: none yet)
  pc,          \* per concurrent DELETE request: "idle", "looked", "done"
  target,      \* per concurrent DELETE request: the question_id of the route
  result,      \* per concurrent DELETE request: the status it ended with
  removed      \* per concurrent DELETE request: whether its DELETE removed a row

vars == <<questions, categories, nextId, request, response, pc, target, result, removed>>

-----------------------------------------------------------------------------
(* Bounds of the model *)

\* ids the sequence hands out in Spec and SpecRace
MaxId == 3
\* ids the sequence hands out in SpecPaging (more than one page of 10)
MaxPagingId == 12
\* the largest ?page= value tried
MaxPage == 3

(* Program constants *)

\* paginate(page, 10)
PageSize == 10

-----------------------------------------------------------------------------
(* Data *)

\* the characters of the texts; "%" and "_" are the wildcards of SQL LIKE
Lower(c) == CASE c = "A" -> "a" [] c = "B" -> "b" [] OTHER -> c

\* the JSON bodies a client posts to create a question
Bodies ==
  { [question |-> <<"A", "b">>, answer |-> <<"z">>, category |-> 1, difficulty |-> 1],
    [question |-> <<"b">>,      answer |-> <<"a">>, category |-> 2, difficulty |-> 3] }

PagingBodies ==
  { [question |-> <<"b">>, answer |-> <<"a">>, category |-> 2, difficulty |-> 3] }

Fields == {"question", "answer", "category", "difficulty"}

\* the categories table of the trivia database (ids 1.., type strings)
CategorySeed == (1 :> "Science") @@ (2 :> "Art") @@ (3 :> "Geography")

Ids(qs) == { q.id : q \in qs }

\* Question.format(): the row as a dictionary of its five columns
format(q) ==
  [id |-> q.id, question |-> q.question, answer |-> q.answer,
   category |-> q.category, difficulty |-> q.difficulty]

-----------------------------------------------------------------------------
(* Requests and responses *)

NoData == [body |-> CHOOSE b \in PagingBodies : TRUE, term |-> <<>>,
           category |-> 0, prev |-> {}, null |-> {}, missing |-> {}]

\* page: the ?page= argument of the URL, when hasPage
NoReq == [op |-> "none", hasPage |-> FALSE, page |-> 0, id |-> 0, data |-> NoData]

Resp(status) ==
  [status |-> status, questions |-> <<>>, total |-> 0,
   current_category |-> "null", id |-> 0]

NoResp == Resp(0)

-----------------------------------------------------------------------------
(* The store *)

\* Query.order_by(Question.id).all(): the rows in ascending id
RECURSIVE OrderById(_)
OrderById(qs) ==
  IF qs = {} THEN <<>>
  ELSE LET m == CHOOSE q \in qs : \A r \in qs : q.id <= r.id
       IN <<m>> \o OrderById(qs \ {m})

\* Query.all() without order_by: the rows in an order the database chooses
Scans(qs) ==
  { s \in [1..Cardinality(qs) -> qs] : \A i, j \in 1..Cardinality(qs) : i # j => s[i] # s[j] }

\* Query.get(id): the row of that primary key, or None ({})
QueryGet(qs, id) == { q \in qs : q.id = id }

\* Question.insert(): session.add + commit
StoreInsert(qs, nid, b) ==
  qs \cup { [id |-> nid, question |-> b.question, answer |-> b.answer,
             category |-> b.category, difficulty |-> b.difficulty] }

\* Question.delete(): session.delete + commit
StoreDelete(qs, id) == { q \in qs : q.id # id }

-----------------------------------------------------------------------------
(* Handlers *)

\* paginate with the offset taken as page * per_page
paginate_offset_from_page(rows, page, perPage) ==
  IF page < 1 THEN <<>>
  ELSE SubSeq(rows, page * perPage + 1,
              IF (page + 1) * perPage < Len(rows) THEN (page + 1) * perPage ELSE Len(rows))

\* Query.paginate(page, per_page): below page 1 it aborts with 404 (the same
\* outcome as the empty page the handler turns into 404), else
\* limit(per_page).offset((page - 1) * per_page)
paginate(rows, page, perPage) ==
  IF page < 1 THEN <<>>
  ELSE SubSeq(rows, (page - 1) * perPage + 1,
              IF page * perPage < Len(rows) THEN page * perPage ELSE Len(rows))

\* GET /questions?page=..
\* request.args.get('page', 1, type=int): 1 when the URL has no page argument
get_questions(qs, hasPage, page) ==
  LET p == IF hasPage THEN page ELSE 1
      current_questions == paginate(OrderById(qs), p, PageSize)
  IN IF Len(current_questions) = 0
     THEN [resp |-> Resp(404), store |-> qs]
     ELSE [resp |-> [Resp(200) EXCEPT
                       !.questions = [i \in 1..Len(current_questions) |->
                                        format(current_questions[i])],
                       !.total = Cardinality(qs)],
           store |-> qs]

\* delete_question with abort(404) outside the try: the 404 reaches the client
delete_question_abort_outside_try(qs, question_id) ==
  LET question == QueryGet(qs, question_id)
  IN IF question = {}
     THEN [resp |-> Resp(404), store |-> qs]
     ELSE [resp |-> [Resp(200) EXCEPT !.id = question_id],
           store |-> StoreDelete(qs, question_id)]

\* DELETE /questions/<question_id>
\* abort(404) is raised inside the try and caught by the bare except
delete_question(qs, question_id) ==
  LET question == QueryGet(qs, question_id)
  IN IF question = {}
     THEN [resp |-> Resp(422), store |-> qs]
     ELSE [resp |-> [Resp(200) EXCEPT !.id = question_id],
           store |-> StoreDelete(qs, question_id)]

\* create_question answering with the number of questions as the created id
create_question_count_as_id(qs, nid, data) ==
  IF data.missing # {}
  THEN [resp |-> Resp(500), store |-> qs, seq |-> nid]
  ELSE IF data.null # {}
  THEN [resp |-> Resp(422), store |-> qs, seq |-> nid]
  ELSE [resp |-> [Resp(201) EXCEPT !.id = Cardinality(qs) + 1],
        store |-> StoreInsert(qs, nid, data.body), seq |-> nid + 1]

\* POST /questions
\* data['k'] of an absent key raises KeyError outside any try: 500
create_question(qs, nid, data) ==
  IF data.missing # {}
  THEN [resp |-> Resp(500), store |-> qs, seq |-> nid]
  ELSE IF data.null # {}
  THEN [resp |-> Resp(422), store |-> qs, seq |-> nid]
  ELSE [resp |-> [Resp(201) EXCEPT !.id = nid],
        store |-> StoreInsert(qs, nid, data.body), seq |-> nid + 1]

\* txt LIKE pat, compared without case (ILIKE): % any run, _ any one character
RECURSIVE Like(_, _)
Like(pat, txt) ==
  IF pat = <<>> THEN txt = <<>>
  ELSE IF Head(pat) = "%"
       THEN Like(Tail(pat), txt) \/ (txt # <<>> /\ Like(pat, Tail(txt)))
  ELSE IF txt = <<>> THEN FALSE
  ELSE IF Head(pat) = "_" THEN Like(Tail(pat), Tail(txt))
  ELSE Lower(Head(pat)) = Lower(Head(txt)) /\ Like(Tail(pat), Tail(txt))

\* Question.question.ilike(f"%{search_term}%")
ilike(txt, search_term) == Like(<<"%">> \o search_term \o <<"%">>, txt)

Formatted(rows) == [i \in 1..Len(rows) |-> format(rows[i])]

\* POST /questions/search; scan: the table's rows in the order the query reads them
\* data.get("searchTerm", None) is None for an absent key and for null
question_search(scan, data) ==
  LET absent == "searchTerm" \in (data.missing \cup data.null)
      search_term == data.term
  IN IF ~absent /\ search_term # <<>>
     THEN LET found == SelectSeq(scan, LAMBDA q : ilike(q.question, search_term))
          IN [Resp(200) EXCEPT !.questions = Formatted(found), !.total = Len(found)]
     ELSE Resp(404)

\* get_questions_by_category with the empty result treated as not found
get_questions_by_category_404_on_empty(scan, cats, category_id) ==
  IF category_id \notin DOMAIN cats
  THEN Resp(404)
  ELSE LET found == SelectSeq(scan, LAMBDA q : q.category = category_id)
       IN IF Len(found) = 0 THEN Resp(404)
          ELSE [Resp(200) EXCEPT !.questions = Formatted(found), !.total = Len(found),
                                 !.current_category = cats[category_id]]

\* GET /categories/<category_id>/questions
get_questions_by_category(scan, cats, category_id) ==
  IF category_id \notin DOMAIN cats
  THEN Resp(404)
  ELSE LET found == SelectSeq(scan, LAMBDA q : q.category = category_id)
       IN [Resp(200) EXCEPT !.questions = Formatted(found), !.total = Len(found),
                            !.current_category = cats[category_id]]

\* the rows set_quiz draws from: all of them for category id 0
QuizQuestions(scan, category_id) ==
  IF category_id = 0 THEN scan
  ELSE SelectSeq(scan, LAMBDA q : q.category = category_id)

\* random.randint(a, b): the values it can return; none (ValueError) when b < a
randint(a, b) == a..b

\* set_quiz with the draw from an empty list not caught: the ValueError is a 500
set_quiz_draw_outside_try(scan, data, r1, r2) ==
  IF {"quiz_category", "previous_questions"} \cap data.missing # {} THEN Resp(422)
  ELSE IF {"quiz_category", "previous_questions"} \cap data.null # {} THEN Resp(422)
  ELSE LET quiz_questions == QuizQuestions(scan, data.category)
       IN IF randint(0, Len(quiz_questions) - 1) = {} THEN Resp(500)
          ELSE LET first == quiz_questions[r1 + 1]
                   next_question == IF first.id \in data.prev
                                    THEN quiz_questions[r2 + 1] ELSE first
               IN [Resp(200) EXCEPT !.questions = <<format(next_question)>>]

\* POST /quizzes; r1, r2: what the two random.randint calls return
\* KeyError, abort(422) and ValueError are all caught by the bare except
set_quiz(scan, data, r1, r2) ==
  IF {"quiz_category", "previous_questions"} \cap data.missing # {} THEN Resp(422)
  ELSE IF {"quiz_category", "previous_questions"} \cap data.null # {} THEN Resp(422)
  ELSE LET quiz_questions == QuizQuestions(scan, data.category)
       IN IF randint(0, Len(quiz_questions) - 1) = {} THEN Resp(422)
          ELSE LET first == quiz_questions[r1 + 1]
                   next_question == IF first.id \in data.prev
                                    THEN quiz_questions[r2 + 1] ELSE first
               IN [Resp(200) EXCEPT !.questions = <<format(next_question)>>]

-----------------------------------------------------------------------------
(* The server, one request at a time *)

\* the concurrent DELETE requests
Workers == {1, 2}

Init ==
  /\ questions = {}
  /\ categories = CategorySeed
  /\ nextId = 1
  /\ request = NoReq
  /\ response = NoResp
  /\ pc = [w \in Workers |-> "idle"]
  /\ target = [w \in Workers |-> 0]
  /\ result = [w \in Workers |-> 0]
  /\ removed = [w \in Workers |-> FALSE]

Idle == request.op = "none"

raceVars == <<pc, target, result, removed>>

\* the JSON bodies of POST /questions: every field present, or one null or absent
CreateData(bodies) ==
  { [NoData EXCEPT !.body = b, !.null = n, !.missing = m] :
      b \in bodies,
      n \in {{}} \cup {{f} : f \in Fields},
      m \in {{}} \cup {{f} : f \in Fields} } 

GetQuestions(hasPage, page) ==
  /\ Idle
  /\ request' = [NoReq EXCEPT !.op = "get_questions", !.hasPage = hasPage, !.page = page]
  /\ response' = get_questions(questions, hasPage, page).resp
  /\ UNCHANGED <<questions, categories, nextId, raceVars>>

DeleteQuestion(id) ==
  /\ Idle
  /\ request' = [NoReq EXCEPT !.op = "delete_question", !.id = id]
  /\ response' = delete_question(questions, id).resp
  /\ questions' = delete_question(questions, id).store
  /\ UNCHANGED <<categories, nextId, raceVars>>

CreateQuestion(data, maxId) ==
  /\ Idle
  /\ nextId <= maxId
  /\ request' = [NoReq EXCEPT !.op = "create_question", !.data = data]
  /\ response' = create_question(questions, nextId, data).resp
  /\ questions' = create_question(questions, nextId, data).store
  /\ nextId' = create_question(questions, nextId, data).seq
  /\ UNCHANGED <<categories, raceVars>>

QuestionSearch(data) ==
  /\ Idle
  /\ \E scan \in Scans(questions) :
       /\ request' = [NoReq EXCEPT !.op = "question_search", !.data = data]
       /\ response' = question_search(scan, data)
  /\ UNCHANGED <<questions, categories, nextId, raceVars>>

GetQuestionsByCategory(id) ==
  /\ Idle
  /\ \E scan \in Scans(questions) :
       /\ request' = [NoReq EXCEPT !.op = "get_questions_by_category", !.id = id]
       /\ response' = get_questions_by_category(scan, categories, id)
  /\ UNCHANGED <<questions, categories, nextId, raceVars>>

SetQuiz(data) ==
  /\ Idle
  /\ \E scan \in Scans(questions) :
       LET n == Len(QuizQuestions(scan, data.category))
           draws == IF n = 0 THEN {0} ELSE randint(0, n - 1)
       IN \E r1, r2 \in draws :
            /\ request' = [NoReq EXCEPT !.op = "set_quiz", !.data = data]
            /\ response' = set_quiz(scan, data, r1, r2)
  /\ UNCHANGED <<questions, categories, nextId, raceVars>>

\* the response is sent; the server takes the next request
Reply ==
  /\ ~Idle
  /\ request' = NoReq
  /\ response' = NoResp
  /\ UNCHANGED <<questions, categories, nextId, raceVars>>

\* the ?page= arguments tried, and the URL without one
PageArgs == { <<TRUE, p>> : p \in 0..MaxPage } \cup { <<FALSE, 0>> }

\* the search terms tried
Terms == { <<>>, <<"a">>, <<"B">>, <<"a", "b">>, <<"z">>, <<"%">>, <<"_">> }

SearchData ==
  { [NoData EXCEPT !.term = t] : t \in Terms }
  \cup { [NoData EXCEPT !.null = {"searchTerm"}], [NoData EXCEPT !.missing = {"searchTerm"}] }

QuizKeys == {"quiz_category", "previous_questions"}

QuizData ==
  { [NoData EXCEPT !.category = c, !.prev = p, !.null = n, !.missing = m] :
      c \in 0..(Cardinality(DOMAIN CategorySeed) + 1),
      p \in SUBSET (1..MaxId),
      n \in {{}} \cup {{k} : k \in QuizKeys},
      m \in {{}} \cup {{k} : k \in QuizKeys} }

Next ==
  \/ \E a \in PageArgs : GetQuestions(a[1], a[2])
  \/ \E id \in 1..(MaxId + 1) : DeleteQuestion(id)
  \/ \E data \in CreateData(Bodies) : CreateQuestion(data, MaxId)
  \/ \E data \in SearchData : QuestionSearch(data)
  \/ \E id \in 1..(Cardinality(DOMAIN CategorySeed) + 1) : GetQuestionsByCategory(id)
  \/ \E data \in QuizData : SetQuiz(data)
  \/ Reply

Spec == Init /\ [][Next]_vars

-----------------------------------------------------------------------------
(* Pagination: the same handlers over a table longer than one page *)

NextPaging ==
  \/ \E a \in PageArgs : GetQuestions(a[1], a[2])
  \/ \E id \in 1..MaxPagingId : DeleteQuestion(id)
  \/ \E data \in { [NoData EXCEPT !.body = b] : b \in PagingBodies } :
       CreateQuestion(data, MaxPagingId)
  \/ Reply

SpecPaging == Init /\ [][NextPaging]_vars

-----------------------------------------------------------------------------
(* Concurrent DELETE requests: each is a lookup, then the delete and commit; *)
(* the database makes each of the two steps atomic                           *)

\* what the database answers to a DELETE of a row another request already
\* deleted: an error raised by the commit, or a commit that matched no row
StaleOutcomes == {"error", "no_row"}

\* lines 80-83: Question.query.get, abort(404) caught by the bare except
delete_lookup(qs, question_id) ==
  IF QueryGet(qs, question_id) = {}
  THEN [pc |-> "done", result |-> 422]
  ELSE [pc |-> "looked", result |-> 0]

\* delete_commit without the except: the commit's error is a 500
delete_commit_no_except(qs, question_id, stale) ==
  IF QueryGet(qs, question_id) # {}
  THEN [store |-> StoreDelete(qs, question_id), result |-> 200, removed |-> TRUE]
  ELSE IF stale = "error"
  THEN [store |-> qs, result |-> 500, removed |-> FALSE]
  ELSE [store |-> qs, result |-> 200, removed |-> FALSE]

\* lines 85-92: question.delete(), the success response, the bare except
delete_commit(qs, question_id, stale) ==
  IF QueryGet(qs, question_id) # {}
  THEN [store |-> StoreDelete(qs, question_id), result |-> 200, removed |-> TRUE]
  ELSE IF stale = "error"
  THEN [store |-> qs, result |-> 422, removed |-> FALSE]
  ELSE [store |-> qs, result |-> 200, removed |-> FALSE]

serverVars == <<request, response>>

RaceLookup(w, id) ==
  /\ pc[w] = "idle"
  /\ pc' = [pc EXCEPT ![w] = delete_lookup(questions, id).pc]
  /\ result' = [result EXCEPT ![w] = delete_lookup(questions, id).result]
  /\ target' = [target EXCEPT ![w] = id]
  /\ UNCHANGED <<questions, categories, nextId, serverVars, removed>>

RaceDelete(w) ==
  /\ pc[w] = "looked"
  /\ \E stale \in StaleOutcomes :
       LET out == delete_commit(questions, target[w], stale)
       IN /\ questions' = out.store
          /\ result' = [result EXCEPT ![w] = out.result]
          /\ removed' = [removed EXCEPT ![w] = out.removed]
  /\ pc' = [pc EXCEPT ![w] = "done"]
  /\ UNCHANGED <<categories, nextId, serverVars, target>>

RaceReturn(w) ==
  /\ pc[w] = "done"
  /\ pc' = [pc EXCEPT ![w] = "idle"]
  /\ target' = [target EXCEPT ![w] = 0]
  /\ result' = [result EXCEPT ![w] = 0]
  /\ removed' = [removed EXCEPT ![w] = FALSE]
  /\ UNCHANGED <<questions, categories, nextId, serverVars>>

NextRace ==
  \/ \E data \in { [NoData EXCEPT !.body = b] : b \in Bodies } : CreateQuestion(data, MaxId)
  \/ Reply
  \/ \E w \in Workers, id \in 1..(MaxId + 1) : RaceLookup(w, id)
  \/ \E w \in Workers : RaceDelete(w)
  \/ \E w \in Workers : RaceReturn(w)

SpecRace == Init /\ [][NextRace]_vars

-----------------------------------------------------------------------------
(* Properties *)

\* the questions a quiz of that category draws from (0: every category)
ScopedPool(qs, c) == { q \in qs : c = 0 \/ q.category = c }

QuizRequest == request.op = "set_quiz"

QuizWellFormed == QuizRequest /\ request.data.null = {} /\ request.data.missing = {}

\* C1: whenever set_quiz returns a question and askedIds does not hold every id
\* of the scoped pool, the returned question's id is not in askedIds.
QuizNeverRepeats ==
  (/\ QuizRequest
   /\ response.status = 200
   /\ ~(Ids(ScopedPool(questions, request.data.category)) \subseteq request.data.prev))
  => \A i \in 1..Len(response.questions) : response.questions[i].id \notin request.data.prev

\* C2: when the scoped pool is not empty and askedIds holds the id of every
\* question in it, set_quiz ends with the non-error outcome Exhausted and
\* returns no question.
QuizExhausted ==
  (/\ QuizWellFormed
   /\ ScopedPool(questions, request.data.category) # {}
   /\ Ids(ScopedPool(questions, request.data.category)) \subseteq request.data.prev)
  => /\ response.questions = <<>>
     /\ response.status \notin {404, 422, 500}

\* C3: when the scoped pool is empty, or quiz_category or previous_questions is
\* null, set_quiz answers Unprocessable, returns no question and leaves the
\* store as it was.
QuizInvalidCategory ==
  [][ (/\ request'.op = "set_quiz"
       /\ \/ ScopedPool(questions, request'.data.category) = {}
          \/ request'.data.null # {})
      => /\ response'.status = 422
         /\ response'.questions = <<>>
         /\ questions' = questions ]_vars

\* C3 witness: a category id without questions, asked of a store that has some
QuizInvalidCategoryWitness ==
  /\ QuizWellFormed
  /\ questions # {}
  /\ request.data.category # 0
  /\ request.data.prev # {}
  /\ ScopedPool(questions, request.data.category) = {}
  /\ response.status = 422

Min(a, b) == IF a < b THEN a ELSE b
Max(a, b) == IF a < b THEN b ELSE a

\* C4: for N stored questions and page >= 1 (no page argument: page 1),
\* get_questions returns min(10, max(0, N - 10 * (page - 1))) questions, the i-th
\* of them the stored question with 10 * (page - 1) + i - 1 smaller ids, and
\* answers NotFound exactly when that number is 0.
PaginationBoundary ==
  (request.op = "get_questions" /\ (request.hasPage => request.page >= 1))
  => LET page == IF request.hasPage THEN request.page ELSE 1
         N == Cardinality(questions)
         count == Min(10, Max(0, N - 10 * (page - 1)))
     IN /\ Len(response.questions) = count
        /\ (response.status = 404) <=> (count = 0)
        /\ count > 0 => response.status = 200
        /\ \A i \in 1..Len(response.questions) :
             /\ response.questions[i] \in { format(q) : q \in questions }
             /\ Cardinality({ q \in questions : q.id < response.questions[i].id })
                  = 10 * (page - 1) + i - 1

\* C4 witness: page 2 of eleven questions whose ids are not 1..11
PaginationBoundaryWitness ==
  /\ request.op = "get_questions"
  /\ request.hasPage /\ request.page = 2
  /\ Cardinality(questions) = 11
  /\ 1 \notin Ids(questions)
  /\ response.status = 200
  /\ Len(response.questions) = 1

\* term occurs in txt, letters compared without case
Contains(txt, term) ==
  \E i \in 0..(Len(txt) - Len(term)) :
    \A j \in 1..Len(term) : Lower(txt[i + j]) = Lower(term[j])

\* C5: question_search answers NotFound for an empty or absent term; for any
\* other term it succeeds with exactly the questions whose question text
\* contains the term without regard to case, in ascending id.
SearchPolicy ==
  request.op = "question_search"
  => IF "searchTerm" \in (request.data.null \cup request.data.missing)
        \/ request.data.term = <<>>
     THEN response.status = 404
     ELSE /\ response.status = 200
          /\ response.questions =
               Formatted(SelectSeq(OrderById(questions),
                                   LAMBDA q : Contains(q.question, request.data.term)))

\* C6: a successful create_question adds one question and returns its id, and
\* delete_question of that id then succeeds and leaves the stored questions as
\* they were before the create.
CreateDeleteRoundTrip ==
  [][ (request'.op = "create_question" /\ response'.status = 201)
      => /\ Cardinality(questions') = Cardinality(questions) + 1
         /\ response'.id \in Ids(questions') \ Ids(questions)
         /\ LET undo == delete_question(questions', response'.id)
            IN /\ undo.resp.status = 200
               /\ undo.resp.id = response'.id
               /\ undo.store = questions ]_vars

\* C6 witness: a question created after another one was deleted
CreateDeleteRoundTripWitness ==
  /\ request.op = "create_question"
  /\ response.status = 201
  /\ response.id \in Ids(questions)
  /\ Cardinality(questions) = 2
  /\ response.id > Cardinality(questions)

\* C7: create_question with one of the four fields null or missing from the
\* request answers Unprocessable and leaves the stored questions unchanged.
CreateRejection ==
  [][ (/\ request'.op = "create_question"
       /\ request'.data.null \cup request'.data.missing # {})
      => /\ response'.status = 422
         /\ questions' = questions ]_vars

\* C8: delete_question of an id that is not stored answers Unprocessable and
\* changes no question; of a stored id it succeeds, reports the id and removes
\* that question and no other.
DeleteAbsentOrPresent ==
  [][ request'.op = "delete_question"
      => IF request'.id \notin Ids(questions)
         THEN /\ response'.status = 422
              /\ questions' = questions
         ELSE /\ response'.status = 200
              /\ response'.id = request'.id
              /\ questions' = { q \in questions : q.id # request'.id }
              /\ Cardinality(questions') = Cardinality(questions) - 1 ]_vars

\* C8 witness: an id that was never stored, asked of a store with questions
DeleteAbsentWitness ==
  /\ request.op = "delete_question"
  /\ questions # {}
  /\ request.id \notin Ids(questions)
  /\ response.status = 422

\* C9: get_questions_by_category of a stored category id succeeds with exactly
\* the questions of that category, their number as total and the category's
\* type as current category, also when there are none; of an id that is not
\* stored it answers NotFound.
CategoryById ==
  request.op = "get_questions_by_category"
  => IF request.id \in DOMAIN categories
     THEN LET expected == { format(q) : q \in { r \in questions : r.category = request.id } }
          IN /\ response.status = 200
             /\ { response.questions[i] : i \in 1..Len(response.questions) } = expected
             /\ Len(response.questions) = Cardinality(expected)
             /\ response.total = Cardinality(expected)
             /\ response.current_category = categories[request.id]
     ELSE /\ response.status = 404
          /\ response.questions = <<>>

\* C9 witness: a stored category without questions, the store holding others
CategoryByIdWitness ==
  /\ request.op = "get_questions_by_category"
  /\ request.id \in DOMAIN categories
  /\ questions # {}
  /\ \A q \in questions : q.category # request.id
  /\ response.status = 200
  /\ response.questions = <<>>
  /\ response.current_category = "Geography"

\* C10: concurrent deletes, their lookups and deletes interleaved in any order:
\* every call ends with success or Unprocessable, at most one of two calls for
\* the same id removes the question, after a call that found the question has
\* ended the question is absent, and a delete step changes no other question.
RacingDeletes ==
  [][ /\ \A w \in Workers :
           pc'[w] = "done"
           => /\ result'[w] \in {200, 422}
              /\ result'[w] = 200 => target'[w] \notin Ids(questions')
      /\ \A v, w \in Workers :
           (v # w /\ target'[v] = target'[w]) => ~(removed'[v] /\ removed'[w])
      /\ \A w \in Workers :
           (pc[w] = "looked" /\ pc'[w] = "done")
           => /\ questions' = { q \in questions : q.id # target[w] }
              /\ target[w] \notin Ids(questions')
              /\ removed'[w] <=> (target[w] \in Ids(questions)) ]_vars

\* C10 witness: two calls found the same question, both have ended, one of them
\* removed it and the other was answered Unprocessable, another question is left
RacingDeletesWitness ==
  /\ pc[1] = "done" /\ pc[2] = "done"
  /\ target[1] = target[2]
  /\ removed[1] /\ ~removed[2]
  /\ result[1] = 200 /\ result[2] = 422
  /\ questions # {}

====
